---- MODULE Spec2Model ----
(***************************************************************************)
(* A model of aioredis_timeseries.py: the AsyncTimeSeries class (rolling   *)
(* counters kept in Redis hashes, one hash per granularity and retention   *)
(* window) and the module's time rounding functions.                       *)
(*                                                                         *)
(* Representation.                                                         *)
(*  - A timestamp argument is a record [kind, v, off]: kind "none" is      *)
(*    Python's None, kind "int" is an integer of epoch seconds v, kind     *)
(*    "dt" is a datetime of absolute instant v whose tzinfo has a UTC      *)
(*    offset of off seconds (a naive datetime is read as UTC by            *)
(*    utctimetuple, so it is off = 0).                                     *)
(*  - A string is a sequence of tokens (short strings); ":" is a token,    *)
(*    and the glob "*" is a token that matches any sequence of tokens.     *)
(*  - The Redis server is the variable store: a function from the keys     *)
(*    that exist to [h |-> the hash, a function from fields to integers,   *)
(*    ttl |-> the key's time to live in seconds, -1 when none is set].     *)
(*  - A pipeline is the sequence of the commands queued in it.             *)
(*  - Amounts are integers; use_float only selects the increment command.  *)
(***************************************************************************)
EXTENDS Integers, Sequences, FiniteSets, TLC

VARIABLES
    store,   \* the Redis server's keys
    heap,    \* the granularity dictionaries that exist, by reference
    insts,   \* the AsyncTimeSeries instances constructed so far
    clock,   \* the process clock, in epoch seconds
    nops,    \* the number of calls made so far
    last,    \* the last call: its arguments, what it queued and sent, its result
    rt,      \* the arguments and results of the last call of a rounding function
    tasks    \* the calls in progress of callers that run concurrently

vars == <<store, heap, insts, clock, nops, last, rt, tasks>>

(***************************************************************************)
(* Units of time.                                                          *)
(***************************************************************************)
seconds(i) == i

minutes(i) == i * seconds(60)

hours(i) == i * minutes(60)

days(i) == i * hours(24)

(***************************************************************************)
(* Timestamps and the clock.                                               *)
(***************************************************************************)
None == [kind |-> "none", v |-> 0, off |-> 0]

IntTs(n) == [kind |-> "int", v |-> n, off |-> 0]

DateTime(n, o) == [kind |-> "dt", v |-> n, off |-> o]

\* Python's truth value of a timestamp argument: None and the integer 0 are false.
Truthy(dt) == ~(dt.kind = "none" \/ (dt.kind = "int" /\ dt.v = 0))

\* dt or tz_now()
OrNow(dt, now) == IF Truthy(dt) THEN dt ELSE DateTime(now, 0)

tz_now(now) == DateTime(now, 0)

dt_to_unix(dt) == dt.v

unix_to_dt(dt) == IF dt.kind = "int" THEN DateTime(dt.v, 0) ELSE dt

\* The wall-clock fields of a datetime, in its own tzinfo.
WallSeconds(dt) == (dt.v + dt.off) % days(1)

Hour(dt) == WallSeconds(dt) \div hours(1)

Minute(dt) == (WallSeconds(dt) % hours(1)) \div minutes(1)

Second(dt) == WallSeconds(dt) % minutes(1)

(***************************************************************************)
(* Timezones: none, or a zone of fixed UTC offset.                         *)
(***************************************************************************)
NoTz == [set |-> FALSE, off |-> 0]

FixedTz(o) == [set |-> TRUE, off |-> o]

\* tz.utcoffset(naive).total_seconds()
utcoffset(tz, naive) == tz.off

Abs(x) == IF x < 0 THEN -x ELSE x

(***************************************************************************)
(* round_time and round_time_with_tz. now1 and now2 are the readings of    *)
(* the clock that tz_now() returns at lines 141 and 153.                   *)
(***************************************************************************)
round_time(dt, precision, now) ==
    LET secs == dt_to_unix(OrNow(dt, now))
    IN  (secs \div precision) * precision

round_time_with_tz(dt, precision, tz, now1, now2) ==
    LET rounded == round_time(dt, precision, now1)
    IN  IF tz.set /\ precision % days(1) = 0
        THEN LET offset == utcoffset(tz, rounded)
                 shifted == rounded - offset
                 d == unix_to_dt(OrNow(dt, now2))
                 dt_seconds == hours(Hour(d)) + minutes(Minute(d)) + seconds(Second(d))
             IN  IF offset < 0 /\ dt_seconds < Abs(offset)
                 THEN shifted - precision
                 ELSE IF offset > 0 /\ dt_seconds >= days(1) - offset
                      THEN shifted + precision
                      ELSE shifted
        ELSE rounded

(***************************************************************************)
(* Strings. Alphabet lists the tokens in the order Python's string         *)
(* comparison gives them (by first character: * 1 4 : e, then "enter"      *)
(* before "event").                                                        *)
(***************************************************************************)
Alphabet == <<"*", "123", "456", ":", "enter", "event", "stats">>

Rank(tok) ==
    IF \E n \in 1..Len(Alphabet) : Alphabet[n] = tok
    THEN CHOOSE n \in 1..Len(Alphabet) : Alphabet[n] = tok
    ELSE 0

RECURSIVE StrLess(_, _)
\* a < b for two strings
StrLess(a, b) ==
    IF b = <<>> THEN FALSE
    ELSE IF a = <<>> THEN TRUE
    ELSE IF Head(a) = Head(b) THEN StrLess(Tail(a), Tail(b))
    ELSE Rank(Head(a)) < Rank(Head(b))

RECURSIVE sorted(_)
\* sorted(parsed): the strings of a set as an ascending list
sorted(S) ==
    IF S = {} THEN <<>>
    ELSE LET m == CHOOSE x \in S : \A y \in S \ {x} : StrLess(x, y)
         IN  <<m>> \o sorted(S \ {m})

IsPrefix(p, s) == Len(p) <= Len(s) /\ SubSeq(s, 1, Len(p)) = p

RECURSIVE replace(_, _)
\* result.replace(prefix, ''): every occurrence of prefix removed, left to right
replace(s, prefix) ==
    IF s = <<>> \/ prefix = <<>> THEN s
    ELSE IF IsPrefix(prefix, s)
         THEN replace(SubSeq(s, Len(prefix) + 1, Len(s)), prefix)
         ELSE <<Head(s)>> \o replace(Tail(s), prefix)

RECURSIVE GlobMatch(_, _)
\* Redis' glob matching of KEYS: "*" matches any substring
GlobMatch(p, s) ==
    IF p = <<>> THEN s = <<>>
    ELSE IF Head(p) = "*"
         THEN GlobMatch(Tail(p), s) \/ (s # <<>> /\ GlobMatch(p, Tail(s)))
         ELSE s # <<>> /\ Head(s) = Head(p) /\ GlobMatch(Tail(p), Tail(s))

(***************************************************************************)
(* The Redis commands the class issues, and a pipeline's round trip.       *)
(* A command is [op, key, field, arg]; a reply is [nil, v, keys].          *)
(***************************************************************************)
Cmd(op, key, field, arg) == [op |-> op, key |-> key, field |-> field, arg |-> arg]

Reply(nil, v, keys) == [nil |-> nil, v |-> v, keys |-> keys]

\* HINCRBY that stores the amount instead of adding it to the field.
HincrbySet(st, key, field, amount) ==
    IF key \in DOMAIN st
    THEN [st EXCEPT ![key].h =
             IF field \in DOMAIN @ THEN [@ EXCEPT ![field] = amount]
             ELSE @ @@ (field :> amount)]
    ELSE st @@ (key :> [h |-> (field :> amount), ttl |-> -1])

hincrby(st, key, field, amount) ==
    IF key \in DOMAIN st
    THEN [st EXCEPT ![key].h =
             IF field \in DOMAIN @ THEN [@ EXCEPT ![field] = @ + amount]
             ELSE @ @@ (field :> amount)]
    ELSE st @@ (key :> [h |-> (field :> amount), ttl |-> -1])

expire(st, key, ttl) ==
    IF key \in DOMAIN st THEN [st EXCEPT ![key].ttl = ttl] ELSE st

hget(st, key, field) ==
    IF key \in DOMAIN st /\ field \in DOMAIN st[key].h
    THEN Reply(FALSE, st[key].h[field], {})
    ELSE Reply(TRUE, 0, {})

keys(st, pattern) == {k \in DOMAIN st : GlobMatch(pattern, k)}

\* One command at the server: the store after it and its reply.
RunCmd(st, c) ==
    CASE c.op \in {"hincrby", "hincrbyfloat"} ->
            LET st2 == hincrby(st, c.key, c.field, c.arg)
            IN  [st |-> st2, res |-> Reply(FALSE, st2[c.key].h[c.field], {})]
      [] c.op = "expire" ->
            [st |-> expire(st, c.key, c.arg),
             res |-> Reply(FALSE, IF c.key \in DOMAIN st THEN 1 ELSE 0, {})]
      [] c.op = "hget" ->
            [st |-> st, res |-> hget(st, c.key, c.field)]
      [] c.op = "keys" ->
            [st |-> st, res |-> Reply(FALSE, 0, keys(st, c.key))]

RECURSIVE RunCmds(_, _)
\* pipe.execute(): the commands run in the order queued; the replies in that order.
\* (The first half, then the second half on the store the first half left.)
RunCmds(st, cmds) ==
    IF cmds = <<>> THEN [st |-> st, res |-> <<>>]
    ELSE IF Len(cmds) = 1
         THEN LET r == RunCmd(st, cmds[1]) IN [st |-> r.st, res |-> <<r.res>>]
         ELSE LET half == Len(cmds) \div 2
                  a == RunCmds(st, SubSeq(cmds, 1, half))
                  b == RunCmds(a.st, SubSeq(cmds, half + 1, Len(cmds)))
              IN  [res |-> a.res \o b.res, st |-> b.st]

\* A round trip that fails: the first n commands reached the server, then the error.
RunPrefix(st, cmds, n) == RunCmds(st, SubSeq(cmds, 1, n)).st

(***************************************************************************)
(* Granularity dictionaries. A dictionary is the sequence of its items in  *)
(* insertion order, each [name, duration, ttl]. heap[ClassRef] is the      *)
(* class attribute AsyncTimeSeries.granularities.                          *)
(***************************************************************************)
Granularity(name, duration, ttl) == [name |-> name, duration |-> duration, ttl |-> ttl]

DefaultGranularities ==
    << Granularity("1minute", minutes(1), hours(1)),
       Granularity("5minute", minutes(5), hours(6)),
       Granularity("10minute", minutes(10), hours(12)),
       Granularity("1hour", hours(1), days(7)),
       Granularity("1day", days(1), days(31)) >>

\* The dictionary the model's callers pass to the constructor: an hourly and a
\* daily granularity with short retention windows.
SHORT_GRANULARITIES ==
    << Granularity("1h", hours(1), hours(3)),
       Granularity("1d", days(1), days(2)) >>

ClassRef == 0

\* AsyncTimeSeries.__init__: granularities is a reference to a dictionary, or
\* ClassRef - 1 for None. "granularities or self.granularities" keeps the reference
\* given unless it is None or an empty dictionary; nothing is copied.
NoRef == ClassRef - 1

AsyncTimeSeries(hp, base_key, use_float, timezone, granularities) ==
    [base_key |-> base_key,
     use_float |-> use_float,
     timezone |-> timezone,
     granularities |-> IF granularities # NoRef /\ hp[granularities] # <<>>
                       THEN granularities ELSE ClassRef,
     chain |-> <<>>]

\* self.granularities, and self.granularities[granularity]
Grans(i) == heap[insts[i].granularities]

GranNames(i) == {Grans(i)[n].name : n \in 1..Len(Grans(i))}

Props(i, granularity) ==
    LET n == CHOOSE m \in 1..Len(Grans(i)) : Grans(i)[m].name = granularity
    IN  Grans(i)[n]

(***************************************************************************)
(* get_key and the write fan-out. now is the reading of the clock that     *)
(* every tz_now() of the call returns.                                     *)
(***************************************************************************)
get_key(i, key, timestamp, granularity, now) ==
    LET ttl == Props(i, granularity).ttl
        timestamp_key == round_time(timestamp, ttl, now)
    IN  <<insts[i].base_key, ":", granularity, ":", ToString(timestamp_key), ":">> \o key

\* The loop body with the expire queued before the increment.
FanOutOneExpireFirst(i, key, amount, timestamp, props, now) ==
    LET hkey == get_key(i, key, timestamp, props.name, now)
        bucket == round_time_with_tz(timestamp, props.duration, insts[i].timezone, now, now)
        incr == IF insts[i].use_float THEN "hincrbyfloat" ELSE "hincrby"
    IN  << Cmd("expire", hkey, 0, props.ttl), Cmd(incr, hkey, bucket, amount) >>

\* The body of the loop of increase for one granularity: the two commands queued.
FanOutOne(i, key, amount, timestamp, props, now) ==
    LET hkey == get_key(i, key, timestamp, props.name, now)
        bucket == round_time_with_tz(timestamp, props.duration, insts[i].timezone, now, now)
        incr == IF insts[i].use_float THEN "hincrbyfloat" ELSE "hincrby"
    IN  << Cmd(incr, hkey, bucket, amount), Cmd("expire", hkey, 0, props.ttl) >>

\* The loop of increase: the commands queued, in order.
FanOut(i, key, amount, timestamp, now) ==
    [n \in 1..(2 * Len(Grans(i))) |->
        FanOutOne(i, key, amount, timestamp, Grans(i)[(n + 1) \div 2], now)[2 - (n % 2)]]

(***************************************************************************)
(* The record of a call, kept in last.                                     *)
(***************************************************************************)
NoCall ==
    [op |-> "none", inst |-> 0, key |-> <<>>, gran |-> "", count |-> 0, amount |-> 0,
     ts |-> None, execute |-> FALSE, search |-> <<>>,
     outcome |-> "none",   \* "ok", or the exception raised
     cmds |-> <<>>,        \* the commands the call queued, in order
     pipes |-> 0,          \* the pipelines the call created
     sent |-> <<>>,        \* the commands of the round trip the call awaited
     results |-> <<>>,     \* the replies of that round trip
     returned |-> "None",  \* what the call returned: None, results, buckets, total, names
     buckets |-> <<>>, total |-> 0, names |-> <<>>]

Call(op, i, key, amount, ts, execute) ==
    [NoCall EXCEPT !.op = op, !.inst = i, !.key = key, !.amount = amount,
                   !.ts = ts, !.execute = execute]

Query(op, i, key, gran, count, ts, search) ==
    [NoCall EXCEPT !.op = op, !.inst = i, !.key = key, !.gran = gran, !.count = count,
                   !.ts = ts, !.search = search]

(***************************************************************************)
(* The methods of AsyncTimeSeries. Each is the whole call, its awaited     *)
(* round trip included. F says whether the round trip may fail (after any  *)
(* number of its commands reached the server); call is the record of the   *)
(* call the caller made.                                                   *)
(***************************************************************************)
\* A pipeline with no command makes no round trip.
FailPoints(cmds, F) == IF F /\ cmds # <<>> THEN 0..Len(cmds) ELSE {}

\* increase with the execute flag ignored: the commands are always sent at once.
IncreaseEager(i, key, amount, timestamp, execute, F, call) ==
    LET cmds == FanOut(i, key, amount, timestamp, clock)
    IN  /\ store' = RunCmds(store, cmds).st
        /\ insts' = insts
        /\ last' = [call EXCEPT !.cmds = cmds, !.pipes = 1, !.outcome = "ok", !.sent = cmds,
                                !.results = RunCmds(store, cmds).res]
        /\ nops' = nops + 1
        /\ UNCHANGED <<heap, clock, rt, tasks>>

increase(i, key, amount, timestamp, execute, F, call) ==
    LET cmds == FanOut(i, key, amount, timestamp, clock)
        done == [call EXCEPT !.cmds = cmds, !.pipes = IF execute THEN 1 ELSE 0]
    IN  /\ IF execute
           THEN /\ \/ /\ store' = RunCmds(store, cmds).st
                      /\ last' = [done EXCEPT !.outcome = "ok", !.sent = cmds,
                                               !.results = RunCmds(store, cmds).res]
                   \/ \E n \in FailPoints(cmds, F) :
                         /\ store' = RunPrefix(store, cmds, n)
                         /\ last' = [done EXCEPT !.outcome = "StoreError", !.sent = cmds]
                /\ insts' = insts
           ELSE /\ store' = store
                /\ insts' = [insts EXCEPT ![i].chain = @ \o cmds]
                /\ last' = [done EXCEPT !.outcome = "ok"]
        /\ nops' = nops + 1
        /\ UNCHANGED <<heap, clock, rt, tasks>>

\* decrease with the sign of the amount kept.
DecreaseUnsigned(i, key, amount, timestamp, execute, F, call) ==
    increase(i, key, amount, timestamp, execute, F, call)

decrease(i, key, amount, timestamp, execute, F, call) ==
    increase(i, key, -1 * amount, timestamp, execute, F, call)

record_hit(i, key, timestamp, count, execute, F, call) ==
    increase(i, key, count, timestamp, execute, F, call)

remove_hit(i, key, timestamp, count, execute, F, call) ==
    decrease(i, key, count, timestamp, execute, F, call)

\* execute with the chain replaced whether or not the round trip succeeded.
ExecuteResetsAlways(i, F) ==
    LET cmds == insts[i].chain
        call == [NoCall EXCEPT !.op = "execute", !.inst = i, !.sent = cmds]
    IN  /\ \/ /\ store' = RunCmds(store, cmds).st
              /\ last' = [call EXCEPT !.outcome = "ok", !.pipes = 1, !.returned = "results",
                                       !.results = RunCmds(store, cmds).res]
           \/ \E n \in FailPoints(cmds, F) :
                 /\ store' = RunPrefix(store, cmds, n)
                 /\ last' = [call EXCEPT !.outcome = "StoreError", !.pipes = 1]
        /\ insts' = [insts EXCEPT ![i].chain = <<>>]
        /\ nops' = nops + 1
        /\ UNCHANGED <<heap, clock, rt, tasks>>

execute(i, F) ==
    LET cmds == insts[i].chain
        call == [NoCall EXCEPT !.op = "execute", !.inst = i, !.sent = cmds]
    IN  /\ \/ /\ store' = RunCmds(store, cmds).st
              /\ insts' = [insts EXCEPT ![i].chain = <<>>]
              /\ last' = [call EXCEPT !.outcome = "ok", !.pipes = 1, !.returned = "results",
                                       !.results = RunCmds(store, cmds).res]
           \/ \E n \in FailPoints(cmds, F) :
                 /\ store' = RunPrefix(store, cmds, n)
                 /\ insts' = insts
                 /\ last' = [call EXCEPT !.outcome = "StoreError"]
        /\ nops' = nops + 1
        /\ UNCHANGED <<heap, clock, rt, tasks>>

\* The limit taken one too low: count >= ttl / duration.
ExceedsLimitOffByOne(props, count) == count * props.duration >= props.ttl

\* count > (props['ttl'] / props['duration']), for a duration above zero
ExceedsLimit(props, count) == count * props.duration > props.ttl

\* The walk without the step made before the first bucket is recorded.
WalkFromStart(rounded, count, duration) ==
    [n \in 1..count |-> (rounded - (count * duration)) + ((n - 1) * duration)]

\* The buckets get_buckets and scan_keys walk: count of them, the last one rounded.
Walk(rounded, count, duration) ==
    [n \in 1..count |-> (rounded - (count * duration)) + (n * duration)]

\* parse = lambda x: _type(x or 0)
parse(x) == IF x.nil THEN 0 ELSE x.v

\* get_buckets up to its return, on the store st: what it queued and what it returns.
GetBuckets(st, i, key, granularity, count, timestamp, now) ==
    LET props == Props(i, granularity)
    IN  IF ExceedsLimit(props, count)
        THEN [outcome |-> "ValueError", pipes |-> 0, cmds |-> <<>>, results |-> <<>>,
              buckets |-> <<>>]
        ELSE LET rounded == round_time_with_tz(timestamp, props.duration,
                                               insts[i].timezone, now, now)
                 walk == Walk(rounded, count, props.duration)
                 cmds == [n \in 1..count |->
                            Cmd("hget", get_key(i, key, IntTs(walk[n]), granularity, now),
                                walk[n], 0)]
                 res == RunCmds(st, cmds).res
             IN  [outcome |-> "ok", pipes |-> 1, cmds |-> cmds, results |-> res,
                  buckets |-> [n \in 1..count |->
                                 [bucket |-> unix_to_dt(IntTs(walk[n])),
                                  value |-> parse(res[n])]]]

RECURSIVE Sum(_)
\* sum([...]), by halves
Sum(values) ==
    IF values = <<>> THEN 0
    ELSE IF Len(values) = 1 THEN values[1]
         ELSE LET half == Len(values) \div 2
              IN  Sum(SubSeq(values, 1, half)) + Sum(SubSeq(values, half + 1, Len(values)))

\* The state after a call that reads: only the record of the call changes.
Answer(call, r, F) ==
    /\ \/ last' = [call EXCEPT !.outcome = r.outcome, !.pipes = r.pipes, !.cmds = r.cmds,
                                !.sent = r.cmds, !.results = r.results,
                                !.returned = IF r.outcome = "ok" THEN @ ELSE "None",
                                !.buckets = r.buckets, !.total = r.total, !.names = r.names]
       \/ /\ r.outcome = "ok"
          /\ FailPoints(r.cmds, F) # {}
          /\ last' = [call EXCEPT !.outcome = "StoreError", !.pipes = r.pipes,
                                  !.cmds = r.cmds, !.sent = r.cmds, !.returned = "None"]
    /\ nops' = nops + 1
    /\ UNCHANGED <<store, heap, insts, clock, rt, tasks>>

get_buckets(i, key, granularity, count, timestamp, F) ==
    LET r == GetBuckets(store, i, key, granularity, count, timestamp, clock)
        call == [Query("get_buckets", i, key, granularity, count, timestamp, <<>>)
                    EXCEPT !.returned = "buckets"]
    IN  Answer(call, r @@ [total |-> 0, names |-> <<>>], F)

get_total(i, key, granularity, count, timestamp, F) ==
    LET r == GetBuckets(store, i, key, granularity, count, timestamp, clock)
        call == [Query("get_total", i, key, granularity, count, timestamp, <<>>)
                    EXCEPT !.returned = "total"]
        total == Sum([n \in 1..Len(r.buckets) |-> r.buckets[n].value])
    IN  Answer(call, r @@ [total |-> total, names |-> <<>>], F)

RECURSIVE SetToSeq(_)
\* The members of a set in the order a loop over it visits them.
SetToSeq(S) ==
    IF S = {} THEN <<>>
    ELSE LET x == CHOOSE y \in S : TRUE IN <<x>> \o SetToSeq(S \ {x})

RECURSIVE StripAll(_, _)
\* for prefix in prefixes: result = result.replace(prefix, '')
StripAll(result, prefixes) ==
    IF prefixes = <<>> THEN result
    ELSE StripAll(replace(result, Head(prefixes)), Tail(prefixes))

\* scan_keys up to its return, on the store st.
ScanKeys(st, i, granularity, count, search, timestamp, now) ==
    LET props == Props(i, granularity)
    IN  IF ExceedsLimit(props, count)
        THEN [outcome |-> "ValueError", pipes |-> 0, cmds |-> <<>>, results |-> <<>>,
              names |-> <<>>]
        ELSE LET rounded == round_time_with_tz(timestamp, props.duration,
                                               insts[i].timezone, now, now)
                 walk == Walk(rounded, count, props.duration)
                 hkeys == {get_key(i, search, IntTs(walk[n]), granularity, now) :
                             n \in 1..count}
                 prefixes == {get_key(i, <<>>, IntTs(walk[n]), granularity, now) :
                                n \in 1..count}
                 cmds == [n \in 1..Cardinality(hkeys) |->
                            Cmd("keys", SetToSeq(hkeys)[n], 0, 0)]
                 res == RunCmds(st, cmds).res
                 results == UNION {res[n].keys : n \in 1..Len(res)}
                 parsed == {StripAll(result, SetToSeq(prefixes)) : result \in results}
             IN  IF res = <<>>
                 THEN \* functools.reduce(operator.add, []) raises TypeError
                      [outcome |-> "TypeError", pipes |-> 1, cmds |-> cmds,
                       results |-> res, names |-> <<>>]
                 ELSE [outcome |-> "ok", pipes |-> 1, cmds |-> cmds, results |-> res,
                       names |-> sorted(parsed)]

scan_keys(i, granularity, count, search, timestamp, F) ==
    LET r == ScanKeys(store, i, granularity, count, search, timestamp, clock)
        call == [Query("scan_keys", i, <<>>, granularity, count, timestamp, search)
                    EXCEPT !.returned = "names"]
    IN  Answer(call, r @@ [total |-> 0, buckets |-> <<>>], F)

(***************************************************************************)
(* The inputs of the calls.                                                *)
(***************************************************************************)
MaxK == 2

MaxAmount == 2

MaxOps == 2

\* 2017-07-13T00:00:00Z, the start of a retention window of every granularity
T0 == 560 * days(31)

Step == hours(1) + minutes(30) + seconds(30)

Times == {T0 + (k * Step) : k \in (0 - MaxK)..MaxK}

Stamps == {None} \cup {DateTime(t, 0) : t \in Times}

Amounts == 1..MaxAmount

Keys == { <<"event", ":", "123">>, <<"enter", ":", "123">> }

Patterns == { <<"*">>, <<"event", ":", "*">> }

Timezones == {NoTz, FixedTz(0 - hours(4)), FixedTz(hours(3))}

\* The largest count a granularity accepts, ttl / duration rounded down.
Limit(props) == props.ttl \div props.duration

Counts(props) == 0..(Limit(props) + 1)

NoRt == [f |-> "none", dt |-> None, precision |-> 1, tz |-> NoTz, now |-> 0,
         done |-> 0, r |-> 0, rr |-> 0]

(***************************************************************************)
(* Spec: one instance, constructed with SHORT_GRANULARITIES and any of the  *)
(* timezones, and up to MaxOps calls of its methods, each run to its       *)
(* return.                                                                 *)
(***************************************************************************)
TestRef == ClassRef + 1

InitWith(tzs, floats) ==
    /\ store = <<>>
    /\ heap = (ClassRef :> DefaultGranularities) @@ (TestRef :> SHORT_GRANULARITIES)
    /\ \E tz \in tzs, use_float \in floats :
          insts = <<AsyncTimeSeries(heap, "stats", use_float, tz, TestRef)>>
    /\ clock = T0 + (MaxK * Step)
    /\ nops = 0
    /\ last = NoCall
    /\ rt = NoRt
    /\ tasks = <<>>

Init == InitWith(Timezones, {FALSE})

DoIncrease ==
    /\ nops < MaxOps
    /\ \E key \in Keys, amount \in Amounts, ts \in Stamps, exec \in BOOLEAN :
          increase(1, key, amount, ts, exec, FALSE, Call("increase", 1, key, amount, ts, exec))

DoDecrease ==
    /\ nops < MaxOps
    /\ \E key \in Keys, amount \in Amounts, ts \in Stamps, exec \in BOOLEAN :
          decrease(1, key, amount, ts, exec, FALSE, Call("decrease", 1, key, amount, ts, exec))

DoRecordHit ==
    /\ nops < MaxOps
    /\ \E key \in Keys, ts \in Stamps, exec \in BOOLEAN :
          record_hit(1, key, ts, 1, exec, FALSE, Call("record_hit", 1, key, 1, ts, exec))

DoRemoveHit ==
    /\ nops < MaxOps
    /\ \E key \in Keys, ts \in Stamps, exec \in BOOLEAN :
          remove_hit(1, key, ts, 1, exec, FALSE, Call("remove_hit", 1, key, 1, ts, exec))

DoExecute ==
    /\ nops < MaxOps
    /\ execute(1, FALSE)

DoGetBuckets ==
    /\ nops < MaxOps
    /\ \E key \in Keys, g \in GranNames(1), ts \in Stamps :
          \E count \in Counts(Props(1, g)) : get_buckets(1, key, g, count, ts, FALSE)

DoGetTotal ==
    /\ nops < MaxOps
    /\ \E key \in Keys, g \in GranNames(1), ts \in Stamps :
          \E count \in Counts(Props(1, g)) : get_total(1, key, g, count, ts, FALSE)

DoScanKeys ==
    /\ nops < MaxOps
    /\ \E g \in GranNames(1), search \in Patterns, ts \in Stamps :
          \E count \in Counts(Props(1, g)) : scan_keys(1, g, count, search, ts, FALSE)

Next ==
    \/ DoIncrease
    \/ DoDecrease
    \/ DoRecordHit
    \/ DoRemoveHit
    \/ DoExecute
    \/ DoGetBuckets
    \/ DoGetTotal
    \/ DoScanKeys

Spec == Init /\ [][Next]_vars

(***************************************************************************)
(* SpecRound: round_time applied to a timestamp, then to its own result.   *)
(***************************************************************************)
MaxT == 7

MaxPrecision == 4

RoundInputs ==
    {[NoRt EXCEPT !.f = "round_time", !.dt = dt, !.precision = d, !.now = MaxT + n] :
        dt \in {IntTs(t) : t \in 0..MaxT} \cup {DateTime(t, 0) : t \in 0..MaxT},
        d \in 1..MaxPrecision, n \in 1..2}

Idle ==
    /\ store = <<>>
    /\ heap = (ClassRef :> DefaultGranularities)
    /\ insts = <<>>
    /\ clock = 0
    /\ nops = 0
    /\ last = NoCall
    /\ tasks = <<>>

InitRound == Idle /\ rt \in RoundInputs

RoundOnce ==
    /\ rt.f = "round_time" /\ rt.done = 0
    /\ rt' = [rt EXCEPT !.done = 1, !.r = round_time(rt.dt, rt.precision, rt.now)]
    /\ UNCHANGED <<store, heap, insts, clock, nops, last, tasks>>

RoundAgain ==
    /\ rt.f = "round_time" /\ rt.done = 1
    /\ rt' = [rt EXCEPT !.done = 2, !.rr = round_time(IntTs(rt.r), rt.precision, rt.now)]
    /\ UNCHANGED <<store, heap, insts, clock, nops, last, tasks>>

NextRound == RoundOnce \/ RoundAgain

SpecRound == InitRound /\ [][NextRound]_vars

(***************************************************************************)
(* SpecTz: round_time_with_tz applied to a timestamp given as epoch        *)
(* seconds, as a UTC datetime or as a datetime of another UTC offset.      *)
(***************************************************************************)
MaxTzK == 20

TzTimes == {T0 + (k * Step) : k \in 0..MaxTzK}

TzOffsets == {0, 0 - hours(5)}

TzStamps ==
    {IntTs(t) : t \in TzTimes} \cup {DateTime(t, o) : t \in TzTimes, o \in TzOffsets}

Precisions == {minutes(1), hours(1), hours(6), days(1), days(2)}

Zones == {NoTz, FixedTz(0 - hours(5)), FixedTz(0 - hours(4)), FixedTz(hours(3))}

TzInputs ==
    {[NoRt EXCEPT !.f = "round_time_with_tz", !.dt = dt, !.precision = d, !.tz = tz,
                  !.now = T0] :
        dt \in TzStamps, d \in Precisions, tz \in Zones}

InitTz == Idle /\ rt \in TzInputs

RoundWithTz ==
    /\ rt.f = "round_time_with_tz" /\ rt.done = 0
    /\ rt' = [rt EXCEPT !.done = 1,
                        !.r = round_time_with_tz(rt.dt, rt.precision, rt.tz, rt.now, rt.now),
                        !.rr = round_time(rt.dt, rt.precision, rt.now)]
    /\ UNCHANGED <<store, heap, insts, clock, nops, last, tasks>>

NextTz == RoundWithTz

SpecTz == InitTz /\ [][NextTz]_vars

(***************************************************************************)
(* SpecChain: one instance and up to MaxChainOps writes, immediate or      *)
(* deferred, and calls of execute(), whose round trip may fail.             *)
(***************************************************************************)
MaxChainOps == 3

ChainStamps == {None, DateTime(T0, 0)}

ChainKeys == { <<"event", ":", "123">> }

InitChain == InitWith({NoTz}, BOOLEAN)

ChainIncrease ==
    /\ nops < MaxChainOps
    /\ \E key \in ChainKeys, amount \in Amounts, ts \in ChainStamps, exec \in BOOLEAN :
          increase(1, key, amount, ts, exec, FALSE, Call("increase", 1, key, amount, ts, exec))

ChainDecrease ==
    /\ nops < MaxChainOps
    /\ \E key \in ChainKeys, amount \in Amounts, ts \in ChainStamps, exec \in BOOLEAN :
          decrease(1, key, amount, ts, exec, FALSE, Call("decrease", 1, key, amount, ts, exec))

ChainRecordHit ==
    /\ nops < MaxChainOps
    /\ \E key \in ChainKeys, ts \in ChainStamps, exec \in BOOLEAN :
          record_hit(1, key, ts, 1, exec, FALSE, Call("record_hit", 1, key, 1, ts, exec))

ChainRemoveHit ==
    /\ nops < MaxChainOps
    /\ \E key \in ChainKeys, ts \in ChainStamps, exec \in BOOLEAN :
          remove_hit(1, key, ts, 1, exec, FALSE, Call("remove_hit", 1, key, 1, ts, exec))

ChainExecute ==
    /\ nops < MaxChainOps
    /\ execute(1, TRUE)

NextChain ==
    \/ ChainIncrease
    \/ ChainDecrease
    \/ ChainRecordHit
    \/ ChainRemoveHit
    \/ ChainExecute

SpecChain == InitChain /\ [][NextChain]_vars

(***************************************************************************)
(* SpecInst: instances are constructed, with no granularities argument or  *)
(* with a dictionary of the caller's, and a caller changes the dictionary  *)
(* an instance holds, in place (ts.granularities[name] = ...) or by        *)
(* assigning another one (ts.granularities = {...}).                       *)
(***************************************************************************)
MaxInsts == 3

MaxRefs == 3

\* The dictionaries a caller passes; the last two are malformed (a duration of zero,
\* a ttl below the duration).
Dicts ==
    { <<>>, DefaultGranularities, SHORT_GRANULARITIES,
      <<Granularity("1h", hours(1), hours(3))>>,
      <<Granularity("1h", 0, hours(3))>>,
      <<Granularity("1h", hours(3), hours(1))>> }

InitInst ==
    /\ store = <<>>
    /\ heap = (ClassRef :> DefaultGranularities)
    /\ insts = <<>>
    /\ clock = T0
    /\ nops = 0
    /\ last = NoCall
    /\ rt = NoRt
    /\ tasks = <<>>

\* The reference of a dictionary the caller creates.
NewRef == Cardinality(DOMAIN heap)

ConstructDefault ==
    /\ Len(insts) < MaxInsts
    /\ insts' = Append(insts, AsyncTimeSeries(heap, "stats", FALSE, NoTz, NoRef))
    /\ last' = [NoCall EXCEPT !.op = "construct", !.inst = Len(insts) + 1,
                             !.outcome = "ok"]
    /\ UNCHANGED <<store, heap, clock, nops, rt, tasks>>

ConstructWith ==
    /\ Len(insts) < MaxInsts
    /\ NewRef <= MaxRefs
    /\ \E d \in Dicts :
          /\ heap' = heap @@ (NewRef :> d)
          /\ insts' = Append(insts, AsyncTimeSeries(heap', "stats", FALSE, NoTz, NewRef))
    /\ last' = [NoCall EXCEPT !.op = "construct", !.inst = Len(insts) + 1,
                             !.outcome = "ok"]
    /\ UNCHANGED <<store, clock, nops, rt, tasks>>

Mutate ==
    /\ \E i \in DOMAIN insts, d \in Dicts :
          /\ d # Grans(i)
          /\ heap' = [heap EXCEPT ![insts[i].granularities] = d]
          /\ last' = [NoCall EXCEPT !.op = "mutate", !.inst = i]
    /\ UNCHANGED <<store, insts, clock, nops, rt, tasks>>

Rebind ==
    /\ NewRef <= MaxRefs
    /\ \E i \in DOMAIN insts, d \in Dicts :
          /\ heap' = heap @@ (NewRef :> d)
          /\ insts' = [insts EXCEPT ![i].granularities = NewRef]
          /\ last' = [NoCall EXCEPT !.op = "rebind", !.inst = i]
    /\ UNCHANGED <<store, clock, nops, rt, tasks>>

NextInst ==
    \/ ConstructDefault
    \/ ConstructWith
    \/ Mutate
    \/ Rebind

SpecInst == InitInst /\ [][NextInst]_vars

(***************************************************************************)
(* The rounding functions' properties.                                     *)
(***************************************************************************)
\* C5: for every timestamp t >= 0 and every duration d > 0, round_time(t, d) is a
\* multiple of d with round_time(t, d) <= t < round_time(t, d) + d, and rounding the
\* result again returns it unchanged.
RoundTimeContract ==
    rt.f = "round_time" =>
        LET t == dt_to_unix(rt.dt)
            d == rt.precision
        IN  /\ rt.done >= 1 => (rt.r % d = 0 /\ rt.r <= t /\ t < rt.r + d)
            /\ rt.done = 2 => rt.rr = rt.r

\* C6: with a timezone of UTC offset o and a duration of one day, round_time_with_tz
\* returns the r with (r + o) mod 86400 = 0 and r <= t < r + 86400, the start of the
\* local day that holds t; with a duration that is no multiple of a day it returns
\* round_time(t, d), whatever the timezone.
TzDayStart ==
    (rt.f = "round_time_with_tz" /\ rt.done = 1) =>
        LET t == dt_to_unix(rt.dt)
            d == rt.precision
            o == rt.tz.off
        IN  /\ (rt.tz.set /\ d = days(1)) =>
                  ((rt.r + o) % days(1) = 0 /\ rt.r <= t /\ t < rt.r + days(1))
            /\ d % days(1) # 0 => rt.r = rt.rr

(***************************************************************************)
(* The properties of the methods. In an action formula last is the call    *)
(* before the step and last' the call the step made.                       *)
(***************************************************************************)
WriteOps == {"increase", "decrease", "record_hit", "remove_hit"}

ReadOps == {"get_buckets", "get_total", "scan_keys"}

\* The step is a call of one of ops.
Called(ops) == nops' = nops + 1 /\ last'.op \in ops

\* The amount a write adds, with its sign.
Signed(c) == IF c.op \in {"decrease", "remove_hit"} THEN 0 - c.amount ELSE c.amount

\* The bucket of a timestamp for the granularity named g.
BucketOf(ts, g) ==
    round_time_with_tz(ts, Props(1, g).duration, insts[1].timezone, clock, clock)

\* The value of a field of a hash of the store, 0 when there is none.
Value(st, key, field) ==
    IF key \in DOMAIN st /\ field \in DOMAIN st[key].h THEN st[key].h[field] ELSE 0

\* The sum of the increments of (key, field) queued in cmds.
QueuedSum(cmds, key, field) ==
    Sum([n \in 1..Len(cmds) |->
            IF cmds[n].op \in {"hincrby", "hincrbyfloat"}
               /\ cmds[n].key = key /\ cmds[n].field = field
            THEN cmds[n].arg ELSE 0])

Increments(cmds) == {n \in 1..Len(cmds) : cmds[n].op \in {"hincrby", "hincrbyfloat"}}

AllZero(st) == \A k \in DOMAIN st : \A f \in DOMAIN st[k].h : st[k].h[f] = 0

\* C1: from an empty store, after an immediate increase(key, a, t), a get_buckets of
\* the same key whose range holds b = round_time_with_tz(t, duration, tz) reports a at
\* b and 0 at every other bucket of the range.
RoundTrip ==
    [][(/\ nops = 1 /\ last.op = "increase" /\ last.execute /\ last.outcome = "ok"
        /\ Called({"get_buckets"}) /\ last'.outcome = "ok" /\ last'.key = last.key
        /\ \E n \in 1..Len(last'.buckets) :
              last'.buckets[n].bucket.v = BucketOf(last.ts, last'.gran))
       => \A n \in 1..Len(last'.buckets) :
              last'.buckets[n].value =
                  IF last'.buckets[n].bucket.v = BucketOf(last.ts, last'.gran)
                  THEN last.amount ELSE 0]_vars

\* C2: a write with execute=False leaves the store as it was and adds its increment
\* of every granularity to the pending chain; a successful execute() makes every
\* increment queued in the chain visible in the store and leaves the chain empty.
DeferredWrites ==
    [][/\ (Called(WriteOps) /\ ~last'.execute) =>
             /\ store' = store
             /\ \A g \in GranNames(1) :
                   LET k == get_key(1, last'.key, last'.ts, g, clock)
                       f == BucketOf(last'.ts, g)
                   IN  QueuedSum(insts'[1].chain, k, f)
                          = QueuedSum(insts[1].chain, k, f) + Signed(last')
       /\ (Called({"execute"}) /\ last'.outcome = "ok") =>
             /\ insts'[1].chain = <<>>
             /\ \A n \in Increments(insts[1].chain) :
                   LET c == insts[1].chain[n]
                   IN  Value(store', c.key, c.field)
                          = Value(store, c.key, c.field)
                            + QueuedSum(insts[1].chain, c.key, c.field)]_vars

\* C2's case: an execute() that flushed the writes of more than one deferred call.
FlushedTwoCalls ==
    /\ last.op = "execute" /\ last.outcome = "ok"
    /\ Len(last.sent) > 2 * Len(Grans(1))
    /\ insts[1].chain = <<>>
    /\ ~AllZero(store)

\* C3: get_buckets, get_total and scan_keys called with count > ttl / duration raise
\* ValueError, create no pipeline, send nothing, and leave the store and the chain
\* as they were; count = ttl / duration is accepted.
CountLimit ==
    [][Called(ReadOps) =>
          LET c == last'
              props == Props(1, c.gran)
          IN  /\ c.count * props.duration > props.ttl =>
                    /\ c.outcome = "ValueError"
                    /\ c.pipes = 0 /\ c.sent = <<>> /\ c.cmds = <<>>
                    /\ store' = store /\ insts' = insts
              /\ c.count * props.duration = props.ttl => c.outcome = "ok"]_vars

\* C3's case: a read refused for its count, on a store that holds data.
RefusedCount ==
    /\ last.op \in ReadOps /\ last.outcome = "ValueError"
    /\ last.count = Limit(Props(1, last.gran)) + 1
    /\ store # <<>>

\* C4: an execute() whose round trip fails raises the error and leaves the pending
\* chain as it was; a successful execute() leaves it empty, and nothing else empties it.
FailedFlush ==
    [][/\ (Called({"execute"}) /\ last'.outcome # "ok") =>
             (last'.outcome = "StoreError" /\ insts'[1].chain = insts[1].chain)
       /\ (Called({"execute"}) /\ last'.outcome = "ok") => insts'[1].chain = <<>>
       /\ (insts[1].chain # <<>> /\ insts'[1].chain = <<>>) =>
             (Called({"execute"}) /\ last'.outcome = "ok")]_vars

\* C4's case: a failed execute() with commands pending.
FlushFailed ==
    /\ last.op = "execute" /\ last.outcome = "StoreError"
    /\ insts[1].chain # <<>>
    /\ insts[1].chain = last.sent

\* C7: decrease(key, x, t, execute) queues the commands of increase(key, -x, t,
\* execute), in the same place; and on an empty store an immediate decrease(x) followed
\* by an immediate increase(x) of the same key and timestamp leaves every field zero.
DecreaseIsNegatedIncrease ==
    [][/\ Called({"decrease"}) =>
             LET cmds == FanOut(1, last'.key, 0 - last'.amount, last'.ts, clock)
             IN  /\ last'.cmds = cmds
                 /\ IF last'.execute
                    THEN last'.sent = cmds /\ insts' = insts
                    ELSE insts'[1].chain = insts[1].chain \o cmds /\ store' = store
       /\ (/\ nops = 1 /\ last.op = "decrease" /\ last.execute /\ last.outcome = "ok"
           /\ Called({"increase"}) /\ last'.execute /\ last'.outcome = "ok"
           /\ last'.key = last.key /\ last'.amount = last.amount /\ last'.ts = last.ts)
          => (store' # <<>> /\ AllZero(store'))]_vars

\* C7's case: after a decrease and an increase the store holds fields, all zero.
NetZero ==
    /\ nops = 2 /\ last.op = "increase" /\ last.execute
    /\ store # <<>> /\ AllZero(store)

\* The entity key and the granularity name of a storage key.
EntityOf(k) == SubSeq(k, 7, Len(k))

GranOf(k) == k[3]

\* C8: get_buckets with 0 <= count <= ttl / duration returns count pairs in ascending
\* order, one duration apart, the last at round_time_with_tz(anchor, duration, tz)
\* and the first count - 1 durations before it; a field the store does not hold is
\* reported as 0.
ReadShape ==
    (last.op = "get_buckets" /\ last.outcome = "ok") =>
        LET c == last
            d == Props(1, c.gran).duration
            anchor == BucketOf(c.ts, c.gran)
            b == c.buckets
        IN  /\ c.count * d <= Props(1, c.gran).ttl
            /\ Len(b) = c.count
            /\ \A n \in 1..Len(b) : b[n].bucket.kind = "dt" /\ b[n].bucket.off = 0
            /\ \A n \in 1..(Len(b) - 1) : b[n + 1].bucket.v - b[n].bucket.v = d
            /\ c.count > 0 =>
                  /\ b[c.count].bucket.v = anchor
                  /\ b[1].bucket.v = anchor - ((c.count - 1) * d)
            /\ \A n \in 1..Len(b) :
                  (~\E k \in DOMAIN store :
                       /\ GranOf(k) = c.gran /\ EntityOf(k) = c.key
                       /\ b[n].bucket.v \in DOMAIN store[k].h)
                  => b[n].value = 0

\* C8's case: a read of several buckets, one of them written.
ReadSeveral ==
    /\ last.op = "get_buckets" /\ last.outcome = "ok" /\ last.count >= 2
    /\ \E n \in 1..Len(last.buckets) : last.buckets[n].value # 0
    /\ \E n \in 1..Len(last.buckets) : last.buckets[n].value = 0

\* C9: after one immediate write of an entity key, scan_keys returns that key if it
\* matches the pattern and its bucket is one of the count buckets ending at the
\* anchor's bucket, and nothing otherwise.
ScanWindow ==
    [][(/\ nops = 1 /\ last.op \in WriteOps /\ last.execute /\ last.outcome = "ok"
        /\ Called({"scan_keys"}) /\ last'.outcome = "ok")
       => LET c == last'
              d == Props(1, c.gran).duration
              anchor == BucketOf(c.ts, c.gran)
              window == {anchor - (n * d) : n \in 0..(c.count - 1)}
              observed == /\ BucketOf(last.ts, c.gran) \in window
                          /\ GlobMatch(c.search, last.key)
          IN  c.names = IF observed THEN <<last.key>> ELSE <<>>]_vars

(***************************************************************************)
(* The instances' granularity dictionaries.                                *)
(***************************************************************************)
\* C10: a change made to the granularity set of one instance leaves the class-level
\* default and the granularity set every other instance sees unchanged.
GranularityIsolation ==
    [][(last'.op \in {"mutate", "rebind"} /\ heap' # heap) =>
          /\ heap'[ClassRef] = heap[ClassRef]
          /\ \A j \in DOMAIN insts \ {last'.inst} :
                heap'[insts'[j].granularities] = heap[insts[j].granularities]]_vars

(***************************************************************************)
(* The storage key of a write and what a write returns.                    *)
(***************************************************************************)
\* C11: for every write and every configured granularity, the increment is addressed
\* to the key <base>:<name>:<window>:<entity> with window =
\* round_time_with_tz(timestamp or now, ttl, tz), and to the field
\* round_time_with_tz(timestamp or now, duration, tz).
KeyWindow ==
    [][Called(WriteOps) =>
          \A n \in 1..Len(Grans(1)) :
             LET g == Grans(1)[n]
                 c == last'.cmds[(2 * n) - 1]
                 window == round_time_with_tz(last'.ts, g.ttl, insts[1].timezone,
                                              clock, clock)
             IN  /\ c.key = <<insts[1].base_key, ":", g.name, ":", ToString(window), ":">>
                               \o last'.key
                 /\ c.field = BucketOf(last'.ts, g.name)]_vars

\* C12: a write with execute=True returns the raw results of its batch, two for each
\* configured granularity, in the order queued; a write with execute=False returns
\* nothing.
ImmediateResult ==
    [][(Called(WriteOps) /\ last'.outcome = "ok") =>
          IF last'.execute
          THEN /\ last'.returned = "results"
               /\ Len(last'.results) = 2 * Len(Grans(1))
               /\ last'.results = RunCmds(store, last'.cmds).res
          ELSE last'.returned = "None"]_vars

(***************************************************************************)
(* The constructor's check of the granularities.                           *)
(***************************************************************************)
\* A granularity dictionary with a duration or a ttl that is not positive, or a ttl
\* below the duration.
Malformed(d) ==
    \E n \in 1..Len(d) : d[n].duration <= 0 \/ d[n].ttl <= 0 \/ d[n].ttl < d[n].duration

\* C13: the construction of an AsyncTimeSeries with a malformed granularity dictionary
\* raises an error, and no instance comes to exist.
ConfigValidation ==
    [][(last'.op = "construct" /\ DOMAIN heap' # DOMAIN heap /\ Malformed(heap'[NewRef]))
          => (last'.outcome # "ok" /\ insts' = insts)]_vars

(***************************************************************************)
(* SpecConc: MaxCallers callers, on two instances that share the store,    *)
(* each make one immediate increase. A call queues its commands in a       *)
(* pipeline of its own (lines 52-61) and is then suspended in              *)
(* pipe.execute() (line 64), while the server runs its commands one at a   *)
(* time, in the order queued, between the commands of the other calls.     *)
(***************************************************************************)
MaxCallers == 3

NoTask ==
    [op |-> "none", pc |-> "start", inst |-> 0, key |-> <<>>, amount |-> 0, ts |-> None,
     cmds |-> <<>>,      \* the commands the call queued
     sent |-> 0,         \* how many of them the server has run
     pipe |-> 0,         \* the pipeline object an execute() runs
     results |-> <<>>,   \* what the call returns
     outcome |-> "none"]

ConcStamps == {None, DateTime(T0, 0)}

\* The instance a caller uses.
InstOf(t) == ((t - 1) % 2) + 1

InitConc ==
    /\ store = <<>>
    /\ heap = (ClassRef :> DefaultGranularities) @@ (TestRef :> SHORT_GRANULARITIES)
    /\ insts = << AsyncTimeSeries(heap, "stats", FALSE, NoTz, TestRef),
                  AsyncTimeSeries(heap, "stats", FALSE, NoTz, TestRef) >>
    /\ clock = T0 + (MaxK * Step)
    /\ nops = 0
    /\ last = NoCall
    /\ rt = NoRt
    /\ tasks = [t \in 1..MaxCallers |-> NoTask]

\* increase(key, amount, timestamp) up to the await of line 64.
StartIncrease ==
    /\ \E t \in DOMAIN tasks, key \in ChainKeys, amount \in Amounts, ts \in ConcStamps :
          /\ tasks[t].pc = "start"
          /\ tasks' = [tasks EXCEPT ![t] =
                [NoTask EXCEPT !.op = "increase", !.pc = "awaiting", !.inst = InstOf(t),
                               !.key = key, !.amount = amount, !.ts = ts,
                               !.cmds = FanOut(InstOf(t), key, amount, ts, clock)]]
    /\ UNCHANGED <<store, heap, insts, clock, nops, last, rt>>

\* The server runs the next command of a batch that is being executed.
ServeCommand ==
    /\ \E t \in DOMAIN tasks :
          /\ tasks[t].pc = "awaiting" /\ tasks[t].sent < Len(tasks[t].cmds)
          /\ store' = RunCmd(store, tasks[t].cmds[tasks[t].sent + 1]).st
          /\ tasks' = [tasks EXCEPT ![t].sent = @ + 1]
    /\ UNCHANGED <<heap, insts, clock, nops, last, rt>>

\* The await of line 64 returns: the batch has completed.
FinishIncrease ==
    /\ \E t \in DOMAIN tasks :
          /\ tasks[t].pc = "awaiting" /\ tasks[t].sent = Len(tasks[t].cmds)
          /\ tasks' = [tasks EXCEPT ![t].pc = "done", ![t].outcome = "ok"]
    /\ UNCHANGED <<store, heap, insts, clock, nops, last, rt>>

NextConc ==
    \/ StartIncrease
    \/ ServeCommand
    \/ FinishIncrease

SpecConc == InitConc /\ [][NextConc]_vars

\* The sum, over the calls in T, of the increments the call queued for (key, field).
RECURSIVE QueuedBy(_, _, _)
QueuedBy(T, key, field) ==
    IF T = {} THEN 0
    ELSE LET t == CHOOSE x \in T : TRUE
         IN  QueuedSum(tasks[t].cmds, key, field) + QueuedBy(T \ {t}, key, field)

\* The hash fields the calls in T address.
Addressed(T) ==
    {<<tasks[t].cmds[n].key, tasks[t].cmds[n].field>> :
        t \in T, n \in 1..(2 * Len(SHORT_GRANULARITIES))}

AllDone == \A t \in DOMAIN tasks : tasks[t].pc = "done"

\* C14: once all the concurrent immediate writes have completed, however the server
\* interleaved their commands, every bucket of every granularity holds the sum of the
\* amounts written to it.
NoLostIncrement ==
    AllDone =>
        /\ \A a \in Addressed(DOMAIN tasks) :
              Value(store, a[1], a[2]) = QueuedBy(DOMAIN tasks, a[1], a[2])
        /\ \A k \in DOMAIN store : \A f \in DOMAIN store[k].h :
              <<k, f>> \in Addressed(DOMAIN tasks)

\* C14's case: all the batches have completed, and the bucket of one key holds the
\* amounts of three calls of two instances.
ThreeWritesSummed ==
    /\ AllDone
    /\ \E k \in DOMAIN store : \E f \in DOMAIN store[k].h :
          /\ \A t \in DOMAIN tasks : QueuedSum(tasks[t].cmds, k, f) = tasks[t].amount
          /\ store[k].h[f] > MaxAmount

(***************************************************************************)
(* The rounding functions and the representation of the timestamp.         *)
(***************************************************************************)
\* C15: round_time_with_tz returns the same bucket for every representation of one
\* instant: the integer of epoch seconds, the datetime in UTC, and a datetime in
\* another timezone, for every duration and every configured timezone.
InstantOnly ==
    (rt.f = "round_time_with_tz" /\ rt.done = 1) =>
        /\ rt.r = round_time_with_tz(DateTime(rt.dt.v, 0), rt.precision, rt.tz,
                                     rt.now, rt.now)
        /\ rt.r = round_time_with_tz(IntTs(rt.dt.v), rt.precision, rt.tz, rt.now, rt.now)

\* C17: for a duration d that is a whole number of days, one day or more, any
\* timezone and a timestamp t given in UTC, r = round_time_with_tz(t, d, tz) satisfies
\* r <= t < r + d.
MultiDayContainment ==
    (/\ rt.f = "round_time_with_tz" /\ rt.done = 1
     /\ rt.precision % days(1) = 0
     /\ rt.dt.kind = "dt" /\ rt.dt.off = 0)
    => (rt.r <= dt_to_unix(rt.dt) /\ dt_to_unix(rt.dt) < rt.r + rt.precision)

(***************************************************************************)
(* The commands of a write.                                                *)
(***************************************************************************)
\* C16: every write, immediate or deferred, queues for each configured granularity, in
\* the dictionary's order, one increment of the signed amount at (key, bucket)
\* followed at once by one expire of the same key with the granularity's ttl, and
\* nothing else: 2 * |granularities| commands. When an immediate write or an
\* execute() has completed, every key its increments touched has the ttl of its
\* granularity.
FanOutShape ==
    [][/\ Called(WriteOps) =>
             LET c == last'.cmds
                 G == Grans(1)
             IN  /\ Len(c) = 2 * Len(G)
                 /\ \A n \in 1..Len(G) :
                       /\ c[(2 * n) - 1] =
                             Cmd(IF insts[1].use_float THEN "hincrbyfloat" ELSE "hincrby",
                                 get_key(1, last'.key, last'.ts, G[n].name, clock),
                                 BucketOf(last'.ts, G[n].name), Signed(last'))
                       /\ c[2 * n] = Cmd("expire", c[(2 * n) - 1].key, 0, G[n].ttl)
                 /\ IF last'.execute
                    THEN last'.sent = c /\ insts' = insts
                    ELSE insts'[1].chain = insts[1].chain \o c /\ store' = store
       /\ (Called(WriteOps \cup {"execute"}) /\ last'.sent # <<>> /\ last'.outcome = "ok") =>
             \A n \in Increments(last'.sent) :
                LET k == last'.sent[n].key
                IN  k \in DOMAIN store' /\ store'[k].ttl = Props(1, GranOf(k)).ttl]_vars

\* C16's case: a deferred write and then the execute() that completed its batch; every
\* key of the store has an expiry.
FlushedWithExpiry ==
    /\ last.op = "execute" /\ last.outcome = "ok"
    /\ Len(last.sent) = 2 * Len(Grans(1))
    /\ store # <<>>
    /\ \A k \in DOMAIN store : store[k].ttl = Props(1, GranOf(k)).ttl

(***************************************************************************)
(* SpecTasks: MaxTasks tasks share one instance; each makes one deferred   *)
(* write or one call of execute(). A deferred write has no await and runs  *)
(* in one step. execute() hands the chain to the client (line 70), is      *)
(* suspended until the round trip is over, and then binds self.chain to a  *)
(* new pipeline (line 71). What the client does with a pipeline that is    *)
(* used while its execute() is pending is not fixed by this repository     *)
(* (setup.py names aioredis without a version): a command queued on it is  *)
(* either accepted, or refused with an error; a second execute() of it     *)
(* either sends its commands again, or is refused with an error.           *)
(***************************************************************************)
MaxTasks == 4

InitTasks ==
    /\ store = <<>>
    /\ heap = (ClassRef :> DefaultGranularities) @@ (TestRef :> SHORT_GRANULARITIES)
    /\ insts = <<AsyncTimeSeries(heap, "stats", FALSE, NoTz, TestRef)>>
    /\ clock = T0
    /\ nops = 0
    /\ last = NoCall
    /\ rt = NoRt
    /\ tasks = [t \in 1..MaxTasks |-> NoTask]

\* The pipeline object self.chain is bound to: one new object for each execute() that
\* reached line 71.
ChainObject ==
    Cardinality({t \in DOMAIN tasks : tasks[t].op = "execute" /\ tasks[t].pc = "done"
                                      /\ tasks[t].outcome = "ok"})

\* An execute() of the object self.chain is bound to is pending.
ChainPending ==
    \E t \in DOMAIN tasks :
        tasks[t].op = "execute" /\ tasks[t].pc = "awaiting" /\ tasks[t].pipe = ChainObject

\* increase(key, amount, timestamp, execute=False): lines 52-61, on self.chain.
DeferredIncrease ==
    /\ \E t \in DOMAIN tasks, key \in ChainKeys, amount \in Amounts :
          /\ tasks[t].pc = "start"
          /\ LET cmds == FanOut(1, key, amount, None, clock)
                 call == [NoTask EXCEPT !.op = "increase", !.pc = "done", !.inst = 1,
                                        !.key = key, !.amount = amount]
             IN  \/ /\ insts' = [insts EXCEPT ![1].chain = @ \o cmds]
                    /\ tasks' = [tasks EXCEPT ![t] =
                                    [call EXCEPT !.cmds = cmds, !.outcome = "ok"]]
                 \/ /\ ChainPending
                    /\ insts' = insts
                    /\ tasks' = [tasks EXCEPT ![t] = [call EXCEPT !.outcome = "PipelineError"]]
    /\ UNCHANGED <<store, heap, clock, nops, last, rt>>

\* execute() up to its suspension in line 70: the commands of the chain go to the
\* server in one round trip.
ExecuteBegin ==
    /\ \E t \in DOMAIN tasks :
          /\ tasks[t].pc = "start"
          /\ LET cmds == insts[1].chain
                 call == [NoTask EXCEPT !.op = "execute", !.inst = 1, !.pipe = ChainObject]
             IN  \/ /\ store' = RunCmds(store, cmds).st
                    /\ tasks' = [tasks EXCEPT ![t] =
                                    [call EXCEPT !.pc = "awaiting", !.cmds = cmds,
                                                 !.sent = Len(cmds),
                                                 !.results = RunCmds(store, cmds).res]]
                 \/ /\ ChainPending
                    /\ store' = store
                    /\ tasks' = [tasks EXCEPT ![t] =
                                    [call EXCEPT !.pc = "done", !.outcome = "PipelineError"]]
    /\ UNCHANGED <<heap, insts, clock, nops, last, rt>>

\* execute() resumes: line 71 binds self.chain to a new pipeline, line 72 returns.
ExecuteEnd ==
    /\ \E t \in DOMAIN tasks :
          /\ tasks[t].op = "execute" /\ tasks[t].pc = "awaiting"
          /\ insts' = [insts EXCEPT ![1].chain = <<>>]
          /\ tasks' = [tasks EXCEPT ![t].pc = "done", ![t].outcome = "ok"]
    /\ UNCHANGED <<store, heap, clock, nops, last, rt>>

NextTasks ==
    \/ DeferredIncrease
    \/ ExecuteBegin
    \/ ExecuteEnd

SpecTasks == InitTasks /\ [][NextTasks]_vars

\* The deferred writes that queued their commands, and the execute() calls that returned.
Queued == {t \in DOMAIN tasks : tasks[t].op = "increase" /\ tasks[t].outcome = "ok"}

Flushed == {t \in DOMAIN tasks : tasks[t].op = "execute" /\ tasks[t].outcome = "ok"}

RECURSIVE Returned(_)
\* The number of results the execute() calls in T returned.
Returned(T) ==
    IF T = {} THEN 0
    ELSE LET t == CHOOSE x \in T : TRUE
         IN  Len(tasks[t].results) + Returned(T \ {t})

\* C18: when no execute() is pending, every command a deferred write queued is either
\* still in the chain or was sent to the store exactly once and is in the results of
\* exactly one execute(): every field holds the queued increments that left the chain,
\* once each, and the execute() calls returned one result for each of them.
NoLostDeferredWrite ==
    (\A t \in DOMAIN tasks : tasks[t].pc # "awaiting") =>
        /\ \A a \in Addressed(Queued) :
              Value(store, a[1], a[2]) + QueuedSum(insts[1].chain, a[1], a[2])
                 = QueuedBy(Queued, a[1], a[2])
        /\ Returned(Flushed) + Len(insts[1].chain) =
              2 * Len(Grans(1)) * Cardinality(Queued)

(***************************************************************************)
(* SpecClock: one instance, calls without a timestamp, and a clock that    *)
(* moves. Every tz_now() of a call (line 141 under get_key, line 141 and   *)
(* line 153 under round_time_with_tz, for each granularity) is a reading   *)
(* of the clock of its own, and the clock may advance by up to MaxDrift    *)
(* seconds while a call runs. Between the calls the clock advances by the  *)
(* hour, and the server removes the keys whose time to live has run out.   *)
(***************************************************************************)
MaxDrift == 1

MaxClockOps == 2

MaxAdvance == 4

\* The readings of the clock a call makes: n of them between lo and hi, none earlier
\* than the one before it.
Readings(n, lo, hi) ==
    {r \in [1..n -> lo..hi] : \A k \in 1..(n - 1) : r[k] <= r[k + 1]}

\* The server's keys after d seconds: a key whose time to live has run out is gone.
Elapse(st, d) ==
    LET kept == {k \in DOMAIN st : st[k].ttl < 0 \/ st[k].ttl > d}
    IN  [k \in kept |-> IF st[k].ttl < 0 THEN st[k]
                        ELSE [st[k] EXCEPT !.ttl = @ - d]]

\* The loop of increase for timestamp=None; r[3g-2], r[3g-1] and r[3g] are the
\* readings of the clock made for the g-th granularity.
FanOutNow(i, key, amount, r) ==
    [n \in 1..(2 * Len(Grans(i))) |->
        LET g == (n + 1) \div 2
            props == Grans(i)[g]
            hkey == get_key(i, key, None, props.name, r[(3 * g) - 2])
            bucket == round_time_with_tz(None, props.duration, insts[i].timezone,
                                         r[(3 * g) - 1], r[3 * g])
            incr == IF insts[i].use_float THEN "hincrbyfloat" ELSE "hincrby"
        IN  IF n % 2 = 1 THEN Cmd(incr, hkey, bucket, amount)
            ELSE Cmd("expire", hkey, 0, props.ttl)]

\* get_buckets for timestamp=None, with the two readings r of round_time_with_tz.
GetBucketsNow(st, i, key, granularity, count, r) ==
    LET props == Props(i, granularity)
    IN  IF ExceedsLimit(props, count)
        THEN [outcome |-> "ValueError", pipes |-> 0, cmds |-> <<>>, results |-> <<>>,
              buckets |-> <<>>]
        ELSE LET rounded == round_time_with_tz(None, props.duration, insts[i].timezone,
                                               r[1], r[2])
                 walk == Walk(rounded, count, props.duration)
                 cmds == [n \in 1..count |->
                            Cmd("hget", get_key(i, key, IntTs(walk[n]), granularity, r[2]),
                                walk[n], 0)]
                 res == RunCmds(st, cmds).res
             IN  [outcome |-> "ok", pipes |-> 1, cmds |-> cmds, results |-> res,
                  buckets |-> [n \in 1..count |->
                                 [bucket |-> unix_to_dt(IntTs(walk[n])),
                                  value |-> parse(res[n])]]]

InitClock ==
    /\ store = <<>>
    /\ heap = (ClassRef :> DefaultGranularities) @@ (TestRef :> SHORT_GRANULARITIES)
    /\ \E tz \in {NoTz, FixedTz(0 - hours(4))} :
          insts = <<AsyncTimeSeries(heap, "stats", FALSE, tz, TestRef)>>
    /\ clock = T0 - 1
    /\ nops = 0
    /\ last = NoCall
    /\ rt = NoRt
    /\ tasks = <<>>

\* Time passes between two calls.
Advance ==
    /\ clock + hours(1) <= T0 + (MaxAdvance * hours(1))
    /\ clock' = clock + hours(1)
    /\ store' = Elapse(store, hours(1))
    /\ UNCHANGED <<heap, insts, nops, last, rt, tasks>>

\* increase(key, amount): timestamp=None, execute=True.
IncreaseNow ==
    /\ nops < MaxClockOps
    /\ \E key \in ChainKeys, amount \in Amounts,
          r \in Readings(3 * Len(Grans(1)), clock, clock + MaxDrift) :
          LET cmds == FanOutNow(1, key, amount, r)
              end == r[Len(r)]
              run == RunCmds(Elapse(store, end - clock), cmds)
          IN  /\ store' = run.st
              /\ clock' = end
              /\ last' = [Call("increase", 1, key, amount, None, TRUE)
                             EXCEPT !.cmds = cmds, !.pipes = 1, !.sent = cmds,
                                    !.results = run.res, !.outcome = "ok"]
    /\ nops' = nops + 1
    /\ UNCHANGED <<heap, insts, rt, tasks>>

\* get_buckets(key, granularity, count): timestamp=None.
GetBucketsAtNow ==
    /\ nops < MaxClockOps
    /\ \E key \in ChainKeys, g \in GranNames(1), r \in Readings(2, clock, clock + MaxDrift) :
          \E count \in Counts(Props(1, g)) :
             LET st == Elapse(store, r[2] - clock)
                 b == GetBucketsNow(st, 1, key, g, count, r)
             IN  /\ store' = st
                 /\ clock' = r[2]
                 /\ last' = [Query("get_buckets", 1, key, g, count, None, <<>>)
                                EXCEPT !.outcome = b.outcome, !.pipes = b.pipes,
                                       !.cmds = b.cmds, !.sent = b.cmds,
                                       !.results = b.results, !.buckets = b.buckets,
                                       !.returned = IF b.outcome = "ok" THEN "buckets"
                                                    ELSE "None"]
    /\ nops' = nops + 1
    /\ UNCHANGED <<heap, insts, rt, tasks>>

NextClock ==
    \/ Advance
    \/ IncreaseNow
    \/ GetBucketsAtNow

SpecClock == InitClock /\ [][NextClock]_vars

\* C19: a call without a timestamp does what the same call does with one explicit
\* timestamp t taken between its start and its return: the keys, the buckets and the
\* day correction of every granularity come from that one instant.
SingleInstant ==
    [][/\ (Called({"increase"}) /\ last'.ts = None) =>
             \E t \in clock..clock' :
                last'.cmds = FanOut(1, last'.key, last'.amount, DateTime(t, 0), t)
       /\ (Called({"get_buckets"}) /\ last'.ts = None /\ last'.outcome = "ok") =>
             \E t \in clock..clock' :
                last'.buckets = GetBuckets(store', 1, last'.key, last'.gran, last'.count,
                                           DateTime(t, 0), t).buckets]_vars

\* C20: with no timezone, after one write without a timestamp, a later get_buckets
\* without a timestamp whose range holds the bucket the write incremented finds the
\* key of that bucket still in the store and reports the amount written at it.
ReachableNotExpired ==
    [][(/\ ~insts[1].timezone.set
        /\ nops = 1 /\ last.op = "increase" /\ last.outcome = "ok"
        /\ Called({"get_buckets"}) /\ last'.outcome = "ok" /\ last'.key = last.key)
       => \A g \in 1..Len(Grans(1)) : \A n \in 1..Len(last'.buckets) :
             (/\ Grans(1)[g].name = last'.gran
              /\ last'.buckets[n].bucket.v = last.cmds[(2 * g) - 1].field)
             => /\ last.cmds[(2 * g) - 1].key \in DOMAIN store'
                /\ last'.buckets[n].value = last.amount]_vars

====
